---- MODULE Spec2Model ----
(***************************************************************************)
(* type-layout: the TypeLayoutInfo / Field data model (src/src/lib.rs),    *)
(* its Display implementation (the table renderer with padding inference)  *)
(* and the body of type_layout() generated by #[derive(TypeLayout)]        *)
(* (src/type-layout-derive/src/lib.rs).                                    *)
(*                                                                         *)
(* A report reaches the renderer in one of two ways: it is built by the    *)
(* derived type_layout() (fields pushed in declaration order, then sorted  *)
(* by offset), or it is written down directly (TypeLayoutInfo and Field    *)
(* have only public fields, and are Deserialize under feature serde1).     *)
(*                                                                         *)
(* A str is the sequence of its chars, a char is its Unicode scalar value: *)
(* "a" is << 97 >>. str::len() counts UTF-8 bytes, the padding of          *)
(* {:<width$} counts chars.                                                *)
(*                                                                         *)
(* A usize is the sequence of its 16-bit limbs, the most significant       *)
(* first: 1 is << 0, 0, 0, 1 >> and usize::MAX is << 65535, 65535, 65535,  *)
(* 65535 >> on a 64-bit target.                                            *)
(***************************************************************************)
EXTENDS Integers, Sequences, FiniteSets, TLC

----------------------------------------------------------------------------
(* Bounds of the model *)

\* largest number of fields of a report
MaxFields == 2

----------------------------------------------------------------------------
(* usize *)

\* width of usize in bits on the target (x86_64)
UsizeBits == 64

\* a limb is a digit in base 2^16
Base == 2 ^ 16
Limbs == UsizeBits \div 16

\* the n low limbs of a number below 2^31
RECURSIVE ToLimbs(_, _)
ToLimbs(v, n) ==
    IF n = 0 THEN << >> ELSE ToLimbs(v \div Base, n - 1) \o << v % Base >>

\* the usize of a number below 2^31
Usize(v) == ToLimbs(v, Limbs)

Zero == Usize(0)
One == Usize(1)
TenThousand == Usize(10000)
UsizeMax == [k \in 1 .. Limbs |-> Base - 1]

\* a < b and a <= b on numbers of as many limbs
Less(a, b) ==
    \E k \in 1 .. Len(a) : a[k] < b[k] /\ \A j \in 1 .. k - 1 : a[j] = b[j]
LessEq(a, b) == a = b \/ Less(a, b)

\* the carry out of the limbs k .. Len(a) of a + b
RECURSIVE CarryOut(_, _, _)
CarryOut(a, b, k) ==
    IF k > Len(a) THEN 0 ELSE (a[k] + b[k] + CarryOut(a, b, k + 1)) \div Base

\* a + b without the last carry
LimbSum(a, b) ==
    [k \in 1 .. Len(a) |-> (a[k] + b[k] + CarryOut(a, b, k + 1)) % Base]

\* a + b on usize: the wrapped value, and whether the addition overflowed
\* (a build with overflow checks panics there, a build without them wraps)
Add(a, b) == [value |-> LimbSum(a, b), overflow |-> CarryOut(a, b, 1) = 1]

\* the borrow out of the limbs k .. Len(a) of a - b
RECURSIVE BorrowOut(_, _, _)
BorrowOut(a, b, k) ==
    IF k > Len(a) THEN 0
    ELSE IF a[k] - b[k] - BorrowOut(a, b, k + 1) < 0 THEN 1 ELSE 0

\* a - b on usize, for b <= a (both subtractions of fmt stand behind a
\* comparison)
Sub(a, b) ==
    [k \in 1 .. Len(a) |-> (a[k] - b[k] - BorrowOut(a, b, k + 1) + Base) % Base]

\* a divided by a number d below 2^15, limb by limb from limb k on: the
\* quotient and the remainder
RECURSIVE DivRem(_, _, _, _)
DivRem(a, d, k, acc) ==
    IF k > Len(a) THEN acc
    ELSE LET cur == acc.rem * Base + a[k]
         IN DivRem(a, d, k + 1,
                   [quot |-> Append(acc.quot, cur \div d), rem |-> cur % d])

\* the sizes and offsets a report is given: small ones and the largest usize
Usizes == {Zero, One, UsizeMax}
Alignments == {One}

----------------------------------------------------------------------------
(* str *)

\* the printable ASCII characters but the double quote (34), the backslash
\* (92) and the grave accent (96), in order, and the code of the first of
\* each run
AsciiRuns ==
    << [first |-> 32, chars |-> " !"],
       [first |-> 35, chars |-> "#$%&'()*+,-./0123456789:;<=>?@ABCDEFGHIJKLMNOPQRSTUVWXYZ["],
       [first |-> 93, chars |-> "]^_"],
       [first |-> 97, chars |-> "abcdefghijklmnopqrstuvwxyz{|}~"] >>

\* the scalar value of an ASCII character
CodeOf(c) ==
    LET run == CHOOSE r \in 1 .. Len(AsciiRuns) :
                  \E i \in 1 .. Len(AsciiRuns[r].chars) :
                     SubSeq(AsciiRuns[r].chars, i, i) = c
        at == CHOOSE i \in 1 .. Len(AsciiRuns[run].chars) :
                 SubSeq(AsciiRuns[run].chars, i, i) = c
    IN AsciiRuns[run].first + at - 1

\* the str of an ASCII literal
RECURSIVE Str(_)
Str(s) == IF s = "" THEN << >> ELSE << CodeOf(Head(s)) >> \o Str(Tail(s))

\* char::len_utf8
len_utf8(c) ==
    IF c < 128 THEN 1 ELSE IF c < 2048 THEN 2 ELSE IF c < 65536 THEN 3 ELSE 4

\* str::len: the length in bytes, the chars counted by their length
str_len(text) ==
    LET count(n) == Cardinality({ k \in 1 .. Len(text) : len_utf8(text[k]) = n })
    IN count(1) + 2 * count(2) + 3 * count(3) + 4 * count(4)

\* str.chars().count()
chars_count(text) == Len(text)

\* str::repeat of a one-char str
Repeat(c, n) == [k \in 1 .. n |-> c]

\* the decimal digits of a number below 2^31
RECURSIVE Digits(_)
Digits(v) ==
    IF v < 10 THEN << 48 + v >> ELSE Digits(v \div 10) \o << 48 + (v % 10) >>

\* the four decimal digits of a number below 10000
FourDigits(v) ==
    << 48 + (v \div 1000), 48 + ((v \div 100) % 10),
       48 + ((v \div 10) % 10), 48 + (v % 10) >>

\* Display of a usize: decimal digits, four at a time from the right
RECURSIVE Decimal(_)
Decimal(a) ==
    IF Less(a, TenThousand) THEN Digits(a[Len(a)])
    ELSE LET d == DivRem(a, 10000, 1, [quot |-> << >>, rem |-> 0])
         IN Decimal(d.quot) \o FourDigits(d.rem)

\* the literals of fmt and write_row
PaddingLabel == Str("[padding]")
OffsetHeader == Str("Offset")
NameHeader == Str("Name")
SizeHeader == Str("Size")
OffsetRule == Str("------")
SizeRule == Str("----")
RowOpen == Str("| ")
RowBar == Str(" | ")
RowClose == Str(" |") \o << 10 >>
TitleSize == Str(" (size ")
TitleAlignment == Str(", alignment ")
TitleClose == Str(")") \o << 10 >>

\* the name of the inspected type
TypeName == Str("Foo")

\* field names: one short, one long, one not ASCII (5 chars in 10 bytes)
FieldNames == { Str("a"), Str("long_field_name"), Repeat(233, 5) }

\* the largest width a format argument takes: u16::MAX
FormatWidthMax == 2 ^ 16 - 1

\* a name one byte longer than that: chars of 4 bytes each (U+1F600)
WideName == Repeat(128512, (FormatWidthMax + 1) \div 4)

----------------------------------------------------------------------------
(* Data model: lib.rs, struct Field and struct TypeLayoutInfo *)

Field(name, ty, size, offset) ==
    [name |-> name, ty |-> ty, size |-> size, offset |-> offset]

TypeLayoutInfo(name, size, alignment, fs) ==
    [name |-> name, size |-> size, alignment |-> alignment, fields |-> fs]

\* the fields a hand-written report or a derived struct is made of
FieldSet ==
    { Field(n, Str("T"), s, o) : n \in FieldNames, s \in Usizes, o \in Usizes }

\* the two structs of the crate documentation: Foo { a: u8, b: u32 } with
\* #[repr(C)], and OverAligned { value: u8 } with #[repr(C, align(128))]
DocFields ==
    { Field(Str("a"), Str("u8"), One, Zero),
      Field(Str("b"), Str("u32"), Usize(4), Usize(4)),
      Field(Str("value"), Str("u8"), One, Zero) }
DocSizes == {Usize(8), Usize(128)}

\* fields of the wide name, and the reports of one such field
WideFields == { Field(WideName, Str("T"), s, Zero) : s \in Usizes }
WideReports == { << f >> : f \in WideFields }
DocAlignments == {Usize(4), Usize(128)}

----------------------------------------------------------------------------
(* Iterator::sum *)

\* self.fields.iter().map(|f| f.size).sum(): a left fold of Add from 0
RECURSIVE IterSum(_, _, _)
IterSum(fs, i, acc) ==
    IF i > Len(fs) THEN acc
    ELSE LET s == Add(acc.value, fs[i].size)
         IN IterSum(fs, i + 1,
                    [value |-> s.value, overflow |-> acc.overflow \/ s.overflow])

----------------------------------------------------------------------------
(* Formatting. A line is the sequence of the strs the formatter hands to   *)
(* the writer, one write_str (or write_char) call each.                    *)

\* "{:<width$}": one write of the text, then one write per fill space, up to
\* width counted in chars; a longer text is not cut. A width above u16::MAX
\* is no format argument: building it panics ("Formatting argument out of
\* range"), before anything of the line is written.
LeftJustify(text, width) ==
    IF width > FormatWidthMax
    THEN [panicked |-> TRUE, writes |-> << >>]
    ELSE [panicked |-> FALSE,
          writes |-> << text >>
                        \o [k \in 1 .. (width - chars_count(text)) |-> << 32 >>]]

RowWidths(offset, name, size) ==
    [offset |-> offset, name |-> name, size |-> size]

Row(offset, name, size) ==
    [offset |-> offset, name |-> name, size |-> size]

\* writeln!(formatter, "| {:<ow$} | {:<nw$} | {:<sw$} |", ..): the writes of
\* one line of the table; the newline is part of the last literal. The
\* arguments are built before the first write, so a width that panics leaves
\* the line unwritten.
write_row(widths, row) ==
    LET offset == LeftJustify(row.offset, widths.offset)
        name == LeftJustify(row.name, widths.name)
        size == LeftJustify(row.size, widths.size)
    IN IF offset.panicked \/ name.panicked \/ size.panicked
       THEN [panicked |-> TRUE, writes |-> << >>]
       ELSE [panicked |-> FALSE,
             writes |-> << RowOpen >> \o offset.writes
                           \o << RowBar >> \o name.writes
                           \o << RowBar >> \o size.writes
                           \o << RowClose >>]

\* a data row as write_row prints it: the numbers in decimal
DisplayRow(row) == Row(Decimal(row.offset), row.name, Decimal(row.size))

\* the text of a sequence of writes
RECURSIVE Concat(_)
Concat(pieces) ==
    IF pieces = << >> THEN << >> ELSE Head(pieces) \o Concat(Tail(pieces))

\* a whole line as the writer holds it, without its newline
LineText(pieces) ==
    LET text == Concat(pieces) IN SubSeq(text, 1, Len(text) - 1)

\* The writer behind the formatter: a String takes every write; another
\* fmt::Write or io::Write may take capacity writes and fail the next one.
StringWriter == [fallible |-> FALSE, capacity |-> 0]
FailingWriter(n) == [fallible |-> TRUE, capacity |-> n]
Writers == { StringWriter } \cup { FailingWriter(n) : n \in {20, 40} }

\* The lines as the writer receives them, from line i on, with capacity
\* writes left: the number of lines written whole, and for a write that
\* fails (Err, passed on by ?) the part of its line written before it.
RECURSIVE WriteLines(_, _, _, _)
WriteLines(lines, i, fallible, capacity) ==
    IF i > Len(lines)
    THEN [whole |-> Len(lines), partial |-> << >>, failed |-> FALSE]
    ELSE IF ~fallible \/ Len(lines[i]) <= capacity
         THEN WriteLines(lines, i + 1, fallible, capacity - Len(lines[i]))
         ELSE [whole |-> i - 1,
               partial |-> Concat(SubSeq(lines[i], 1, capacity)),
               failed |-> TRUE]

----------------------------------------------------------------------------
(* <TypeLayoutInfo as Display>::fmt *)

\* faulty variant: the comparison of the sum with the size lets equality through
padding_header_length_OrEqual(fields_size, size) ==
    IF LessEq(fields_size, size) THEN str_len(PaddingLabel) ELSE 0

padding_header_length(fields_size, size) ==
    IF Less(fields_size, size) THEN str_len(PaddingLabel) ELSE 0

Max(a, b) == IF a >= b THEN a ELSE b

\* .map(|field| field.name.len()).max()  (0 stands for None, handled below)
RECURSIVE MaxNameLen(_, _)
MaxNameLen(fs, i) ==
    IF i > Len(fs) THEN 0 ELSE Max(str_len(fs[i].name), MaxNameLen(fs, i + 1))

longest_name(fs, padding_len) ==
    Max(IF fs = << >> THEN 1 ELSE MaxNameLen(fs, 1), padding_len)

\* faulty variant: the padding row's size is the field's offset, the cursor is not
\* subtracted
InteriorPadding_NoSubtract(offset, field) ==
    IF Less(offset, field.offset)
    THEN << [offset |-> offset, name |-> PaddingLabel, size |-> field.offset] >>
    ELSE << >>

\* faulty variant: the guard lets a field that starts at the cursor through
InteriorPadding_OrEqual(offset, field) ==
    IF LessEq(offset, field.offset)
    THEN << [offset |-> offset, name |-> PaddingLabel,
             size |-> Sub(field.offset, offset)] >>
    ELSE << >>

\* the rows written for one field when the cursor stands at offset
InteriorPadding(offset, field) ==
    IF Less(offset, field.offset)
    THEN << Row(offset, PaddingLabel, Sub(field.offset, offset)) >>
    ELSE << >>

FieldRow(field) == Row(field.offset, field.name, field.size)

\* the for loop over self.fields. With overflow checks the addition
\* field.offset + field.size panics on overflow, after the field's row
\* has been written.
RECURSIVE Walk(_, _, _, _, _)
Walk(fs, i, offset, acc, checks) ==
    IF i > Len(fs)
    THEN [rows |-> acc, offset |-> offset, panicked |-> FALSE]
    ELSE LET field == fs[i]
             written == acc \o InteriorPadding(offset, field) \o << FieldRow(field) >>
             next == Add(field.offset, field.size)
         IN IF checks /\ next.overflow
            THEN [rows |-> written, offset |-> offset, panicked |-> TRUE]
            ELSE Walk(fs, i + 1, next.value, written, checks)

\* faulty variant: the tail row's size is the whole size, the cursor is not subtracted
TailPadding_WholeSize(offset, size) ==
    IF Less(offset, size)
    THEN << [offset |-> offset, name |-> PaddingLabel, size |-> size] >>
    ELSE << >>

\* faulty variant: tail padding is written only for a cursor that has moved
TailPadding_AfterFieldsOnly(offset, size) ==
    IF Less(Zero, offset) /\ Less(offset, size)
    THEN << [offset |-> offset, name |-> PaddingLabel, size |-> Sub(size, offset)] >>
    ELSE << >>

\* "Handle tail padding."
TailPadding(offset, size) ==
    IF Less(offset, size)
    THEN << Row(offset, PaddingLabel, Sub(size, offset)) >>
    ELSE << >>

\* fmt on a writer that takes every write: the lines, each as its writes,
\* the data rows given to write_row, and whether an addition or a width
\* panicked. checks: the build has overflow checks. The widths are the same
\* for every row, so a width that panics does so at the header row.
Render(self, checks) ==
    LET title == << self.name, TitleSize, Decimal(self.size),
                    TitleAlignment, Decimal(self.alignment), TitleClose >>
        sum == IterSum(self.fields, 1, [value |-> Zero, overflow |-> FALSE])
    IN IF checks /\ sum.overflow
       THEN [lines |-> << title >>, rows |-> << >>, head |-> 1, panicked |-> TRUE]
       ELSE
         LET fields_size == sum.value
             name_width == longest_name(self.fields,
                               padding_header_length(fields_size, self.size))
             widths == RowWidths(str_len(OffsetHeader), name_width, str_len(SizeHeader))
             header == write_row(widths, Row(OffsetHeader, NameHeader, SizeHeader))
         IN IF header.panicked
            THEN [lines |-> << title >>, rows |-> << >>, head |-> 1, panicked |-> TRUE]
            ELSE
              LET head == << title,
                             header.writes,
                             write_row(widths, Row(OffsetRule, Repeat(45, name_width),
                                                   SizeRule)).writes >>
                  walk == Walk(self.fields, 1, Zero, << >>, checks)
                  rws == IF walk.panicked THEN walk.rows
                         ELSE walk.rows \o TailPadding(walk.offset, self.size)
              IN [lines |-> head \o [k \in 1 .. Len(rws) |->
                                        write_row(widths, DisplayRow(rws[k])).writes],
                  rows |-> rws,
                  head |-> Len(head),
                  panicked |-> walk.panicked]

\* The same run on the writer at hand: every ? of fmt passes the writer's
\* Err on, so the run ends at the first write that fails.
\* out: the lines written whole; partial: the part written of the line whose
\* write failed; rows: the data rows given to write_row; result: "ok" for
\* Ok(()), "err" for Err(fmt::Error), "panic" for a panic (an addition
\* that overflows, a width above u16::MAX).
Deliver(run, writer) ==
    LET w == WriteLines(run.lines, 1, writer.fallible, writer.capacity)
        entered == IF w.failed THEN Max(0, w.whole + 1 - run.head)
                   ELSE Len(run.rows)
    IN [out |-> [k \in 1 .. w.whole |-> LineText(run.lines[k])],
        partial |-> w.partial,
        rows |-> SubSeq(run.rows, 1, entered),
        result |-> IF w.failed THEN "err"
                   ELSE IF run.panicked THEN "panic" ELSE "ok"]

\* The whole of fmt on one report
fmt(self, checks, writer) == Deliver(Render(self, checks), writer)

----------------------------------------------------------------------------
(* The derived type_layout() *)

\* fields.sort_by_key(|f| f.offset): a stable sort, ascending by offset
RECURSIVE sort_by_key(_)
sort_by_key(fs) ==
    IF fs = << >> THEN << >>
    ELSE LET init == sort_by_key(SubSeq(fs, 1, Len(fs) - 1))
             last == fs[Len(fs)]
             keep == { k \in 1 .. Len(init) : LessEq(init[k].offset, last.offset) }
             n == Cardinality(keep)
         IN SubSeq(init, 1, n) \o << last >> \o SubSeq(init, n + 1, Len(init))

\* size_of and offset_of! report a layout the compiler made: a field lies
\* inside the address space, has a name of its own, and ends before another
\* field starts or starts after it ends (a field of size 0 may stand at the
\* start or at the end of another field)
Disjoint(f, g) ==
    \/ LessEq(Add(f.offset, f.size).value, g.offset)
    \/ LessEq(Add(g.offset, g.size).value, f.offset)

CompilerField(fs, f) ==
    /\ ~Add(f.offset, f.size).overflow
    /\ \A k \in 1 .. Len(fs) : fs[k].name # f.name /\ Disjoint(fs[k], f)

\* size_of::<T>() covers every field
CompilerSize(fs, size) ==
    \A k \in 1 .. Len(fs) : LessEq(Add(fs[k].offset, fs[k].size).value, size)

----------------------------------------------------------------------------
(* State *)

VARIABLES
    pc,       \* "idle", "deriving" (inside type_layout), "built", "done"
    fields,   \* the local Vec<Field> of type_layout()
    info,     \* the TypeLayoutInfo handed to the renderer
    origin,   \* "none", "derive" (type_layout) or "literal" (written by hand)
    out,      \* the lines fmt has written whole
    partial,  \* the part written of the line whose write failed
    rows,     \* the data rows fmt has given to write_row
    result    \* "none", "ok", "err" or "panic"

vars == << pc, fields, info, origin, out, partial, rows, result >>

NoInfo == TypeLayoutInfo(<< >>, Zero, One, << >>)

Init ==
    /\ pc = "idle"
    /\ fields = << >>
    /\ info = NoInfo
    /\ origin = "none"
    /\ out = << >>
    /\ partial = << >>
    /\ rows = << >>
    /\ result = "none"

\* type_layout(): let mut fields = Vec::<Field>::new();
BeginTypeLayout ==
    /\ pc = "idle"
    /\ pc' = "deriving"
    /\ fields' = << >>
    /\ UNCHANGED << info, origin, out, partial, rows, result >>

\* one block of #layout: fields.push(Field { name, ty, size, offset })
Push ==
    /\ pc = "deriving"
    /\ Len(fields) < MaxFields
    /\ \E f \in FieldSet \cup DocFields :
          /\ CompilerField(fields, f)
          /\ fields' = Append(fields, f)
    /\ UNCHANGED << pc, info, origin, out, partial, rows, result >>

\* the rest of type_layout(): sort the fields and build the report
FinishTypeLayout ==
    /\ pc = "deriving"
    /\ \E size \in Usizes \cup DocSizes, alignment \in Alignments \cup DocAlignments :
          /\ CompilerSize(fields, size)
          /\ info' = TypeLayoutInfo(TypeName, size, alignment, sort_by_key(fields))
    /\ pc' = "built"
    /\ origin' = "derive"
    /\ UNCHANGED << fields, out, partial, rows, result >>

\* the field lists of at most MaxFields fields
FieldLists == UNION { [1 .. n -> FieldSet] : n \in 0 .. MaxFields }

\* a report written as a struct literal (or deserialized): any fields in
\* any order, any size
Literal ==
    /\ pc = "idle"
    /\ \E fs \in FieldLists \cup WideReports :
       \E size \in Usizes, alignment \in Alignments :
          info' = TypeLayoutInfo(TypeName, size, alignment, fs)
    /\ pc' = "built"
    /\ origin' = "literal"
    /\ UNCHANGED << fields, out, partial, rows, result >>

\* write!(writer, "{}", info), info.to_string(), println!("{}", info)
Fmt ==
    /\ pc = "built"
    /\ \E checks \in BOOLEAN :
       \E run \in { Render(info, checks) } :
       \E writer \in Writers :
       \E r \in { Deliver(run, writer) } :
          /\ out' = r.out
          /\ partial' = r.partial
          /\ rows' = r.rows
          /\ result' = r.result
    /\ pc' = "done"
    /\ UNCHANGED << fields, info, origin >>

Next ==
    \/ BeginTypeLayout
    \/ Push
    \/ FinishTypeLayout
    \/ Literal
    \/ Fmt

Spec == Init /\ [][Next]_vars
----------------------------------------------------------------------------
(* Vocabulary of the properties, stated on the report and on the output   *)
(* alone                                                                   *)

Done == pc = "done"
Returned == pc = "done" /\ result = "ok"

IsPadding(r) == r.name = PaddingLabel
PaddingRows(rs) == { k \in 1 .. Len(rs) : IsPadding(rs[k]) }

\* A natural number is a usize with one more limb in front, which the
\* sums of a report never fill: Wide(a) is the number a, Plus their sum,
\* Wrapped(n) is n modulo 2^UsizeBits as a usize.
Wide(a) == << 0 >> \o a
Plus(m, n) == LimbSum(m, n)
Wrapped(n) == Tail(n)
FitsUsize(n) == n[1] = 0

\* a well-formed usize
IsUsize(a) ==
    /\ a \in Seq(0 .. Base - 1)
    /\ Len(a) = Limbs

\* the sum of the fields' sizes as a natural number
RECURSIVE ExactSum(_)
ExactSum(fs) ==
    IF fs = << >> THEN Wide(Zero) ELSE Plus(Wide(fs[1].size), ExactSum(Tail(fs)))

\* the end of a field or row as a natural number
End(f) == Plus(Wide(f.offset), Wide(f.size))

\* no addition of the rendering leaves usize
NoOverflow(r) ==
    /\ FitsUsize(ExactSum(r.fields))
    /\ \A k \in 1 .. Len(r.fields) : FitsUsize(End(r.fields[k]))

\* the cursor when field k is reached: 0, or the end of the field before it
CursorAt(fs, k) ==
    IF k = 1 THEN Zero ELSE Wrapped(End(fs[k - 1]))

\* the cursor after the last field
FinalCursor(fs) == CursorAt(fs, Len(fs) + 1)

Padded(fs, k) == Less(CursorAt(fs, k), fs[k].offset)

\* the index of field k's own row among the data rows
RowIndex(fs, k) == k + Cardinality({ j \in 1 .. k : Padded(fs, j) })

\* the number of rows the walk over the fields writes
WalkLen(fs) == IF fs = << >> THEN 0 ELSE RowIndex(fs, Len(fs))

\* the width of the Name column, read off the separator line (the third
\* line written whole): what is left of it without "| ------ | " and
\* " | ---- |"
NameWidth(lines) == Len(lines[3]) - Len("| ------ |  | ---- |")

\* the names of the fields of the crate documentation
NameA == Str("a")
NameB == Str("b")
NameValue == Str("value")

RECURSIVE SumOfSizes(_)
SumOfSizes(rs) ==
    IF rs = << >> THEN Wide(Zero) ELSE Plus(Wide(rs[1].size), SumOfSizes(Tail(rs)))

\* the rows tile [0, size): each starts where the one before it ends
Contiguous(rs, size) ==
    /\ rs = << >> => size = Zero
    /\ rs # << >> =>
          /\ rs[1].offset = Zero
          /\ \A k \in 1 .. Len(rs) - 1 : Wide(rs[k + 1].offset) = End(rs[k])
          /\ End(rs[Len(rs)]) = Wide(size)

----------------------------------------------------------------------------
(* C1 *)

\* C1: rendering a report gives the data rows that rendering the same
\* report with its fields sorted ascending by offset gives, whatever the
\* order of the fields (the renderer sorts them itself).
C1_OrderIndependence ==
    Returned =>
        rows = fmt([info EXCEPT !.fields = sort_by_key(info.fields)],
                   FALSE, StringWriter).rows

----------------------------------------------------------------------------
(* C2, C3 *)

\* C2: the data rows, in the order written, tile [0, size): the first starts
\* at 0, each next one starts where the one before it ends, the last ends at
\* the report's size. Stated on the reports type_layout() builds, whose
\* fields are sorted, share no byte and lie inside the type.
C2_NoOverlap ==
    (Returned /\ origin = "derive") => Contiguous(rows, info.size)

\* C3: the sizes of all data rows (field rows and padding rows) add up to
\* the report's size. Stated on the reports type_layout() builds.
C3_Coverage ==
    (Returned /\ origin = "derive") => SumOfSizes(rows) = Wide(info.size)

----------------------------------------------------------------------------
(* C4 *)

\* C4, as stated: the Name column is at least 9 wide if and only if the sum
\* of the fields' sizes is below the report's size.
C4_PaddingHeaderGating ==
    (Done /\ Len(out) >= 3) =>
        (NameWidth(out) >= 9 <=> Less(ExactSum(info.fields), Wide(info.size)))

\* C4, amended: the Name column is at least 9 wide if and only if the sum of
\* the fields' sizes, as fmt computes it in usize, is below the report's
\* size or some field's name is at least 9 bytes long. When that sum is not
\* below the size the width is the length in bytes of the longest field name
\* (1 without fields), whatever that is.
C4_PaddingHeaderOrLongName ==
    (Done /\ Len(out) >= 3) =>
        LET fs == info.fields
            sum == Wrapped(ExactSum(fs))
            lens == { str_len(fs[k].name) : k \in 1 .. Len(fs) }
        IN /\ NameWidth(out) >= 9 <=>
                 (Less(sum, info.size) \/ \E n \in lens : n >= 9)
           /\ LessEq(info.size, sum) =>
                 /\ fs = << >> => NameWidth(out) = 1
                 /\ fs # << >> => /\ NameWidth(out) \in lens
                                  /\ \A n \in lens : n <= NameWidth(out)

\* no padding is predicted, yet the column is wider than 9: a long name
C4_Witness ==
    /\ Returned
    /\ info.fields # << >>
    /\ LessEq(Wide(info.size), ExactSum(info.fields))
    /\ NameWidth(out) > 9

----------------------------------------------------------------------------
(* C5 *)

\* C5: each column is at least as wide as its header and as every value
\* printed in it, so that the header row, the separator row and every data
\* row have the same length (in chars).
C5_ColumnWidths ==
    Returned =>
        /\ NameWidth(out) >= Len("Name")
        /\ \A k \in 1 .. Len(rows) :
              /\ Len(Decimal(rows[k].offset)) <= Len("Offset")
              /\ Len(rows[k].name) <= NameWidth(out)
              /\ Len(Decimal(rows[k].size)) <= Len("Size")
        /\ \A i, j \in 2 .. Len(out) : Len(out[i]) = Len(out[j])

----------------------------------------------------------------------------
(* C6 *)

\* C6: walking the fields with a cursor that starts at 0 and is set to
\* field.offset + field.size after each field, the renderer writes before a
\* field's row one row (cursor, "[padding]", field.offset - cursor) when
\* field.offset > cursor and none otherwise, and writes one row (offset,
\* name, size) per field. A rendering that returns has written all of these
\* rows; one cut short by a panic or by the writer's Err has
\* written (or, for the last, begun) a prefix of them.
C6_InteriorPadding ==
    Done =>
        LET fs == info.fields
        IN /\ result = "ok" => Len(rows) >= WalkLen(fs)
           /\ result = "panic" => Len(rows) <= WalkLen(fs)
           /\ \A k \in 1 .. Len(fs) :
                 RowIndex(fs, k) <= Len(rows) =>
                    /\ rows[RowIndex(fs, k)] =
                          [offset |-> fs[k].offset, name |-> fs[k].name,
                           size |-> fs[k].size]
                    /\ Padded(fs, k) =>
                          rows[RowIndex(fs, k) - 1] =
                             [offset |-> CursorAt(fs, k), name |-> PaddingLabel,
                              size |-> Sub(fs[k].offset, CursorAt(fs, k))]

\* the Foo of the crate documentation: size 8, a at 0 of size 1, b at 4 of
\* size 4
C6_Witness ==
    /\ Returned
    /\ info.size = Usize(8)
    /\ rows = << [offset |-> Usize(0), name |-> NameA, size |-> Usize(1)],
                 [offset |-> Usize(1), name |-> PaddingLabel, size |-> Usize(3)],
                 [offset |-> Usize(4), name |-> NameB, size |-> Usize(4)] >>

----------------------------------------------------------------------------
(* C7 *)

\* C7: after the walk the renderer writes one last row (cursor, "[padding]",
\* size - cursor) if the cursor is below the report's size, and no further
\* row otherwise; without fields the cursor is 0.
C7_TailPadding ==
    Returned =>
        LET fs == info.fields
            cursor == FinalCursor(fs)
        IN IF Less(cursor, info.size)
           THEN /\ Len(rows) = WalkLen(fs) + 1
                /\ rows[Len(rows)] =
                      [offset |-> cursor, name |-> PaddingLabel,
                       size |-> Sub(info.size, cursor)]
           ELSE Len(rows) = WalkLen(fs)

\* the OverAligned of the crate documentation: size 128, value at 0 of size 1
C7_Witness ==
    /\ Returned
    /\ info.size = Usize(128)
    /\ rows = << [offset |-> Usize(0), name |-> NameValue, size |-> Usize(1)],
                 [offset |-> Usize(1), name |-> PaddingLabel, size |-> Usize(127)] >>

----------------------------------------------------------------------------
(* C8 *)

\* C8: rendering any report, however malformed, completes and writes the
\* whole block: the title, the header, the separator and a row per field
\* (no addition aborts it, nor anything else).
\* Stated for a writer that takes every write (the writer's own failure is
\* not the renderer's).
C8_Totality ==
    (Done /\ result # "err") =>
        /\ result = "ok"
        /\ Len(out) >= 3 + Len(info.fields)

----------------------------------------------------------------------------
(* C9 *)

\* C9: for a report in any order, overlapping or not, whose rendering meets
\* no arithmetic overflow and returns Ok: if the sum of the fields' sizes is
\* below the report's size, a "[padding]" row is written; hence a
\* "[padding]" row in a table whose Name column did not reserve the width of
\* "[padding]" on account of that check means the sum is at least the size.
\* (A rendering that does not return has not written the table: the claim is
\* about the table.)
C9_PaddingPrediction ==
    (Returned /\ NoOverflow(info)) =>
        /\ Less(ExactSum(info.fields), Wide(info.size)) => PaddingRows(rows) # {}
        /\ (PaddingRows(rows) # {} /\ NameWidth(out) < Len("[padding]"))
              => LessEq(Wide(info.size), ExactSum(info.fields))

\* two overlapping fields out of order, sizes adding up to less than the
\* size, and the padding row is there
C9_Witness ==
    /\ Returned
    /\ NoOverflow(info)
    /\ Len(info.fields) = 2
    /\ Less(info.fields[2].offset, info.fields[1].offset)
    /\ info.fields[2].size # Zero
    /\ Less(ExactSum(info.fields), Wide(info.size))
    /\ PaddingRows(rows) # {}

----------------------------------------------------------------------------
(* C10 *)

\* C10: every "[padding]" row written, interior or tail, for any report,
\* has a size of at least 1 and ends inside usize, at the field's offset or
\* at the report's size (no subtraction underflows).
C10_PaddingPositive ==
    \A k \in PaddingRows(rows) :
        /\ IsUsize(rows[k].size)
        /\ rows[k].size # Zero
        /\ FitsUsize(End(rows[k]))

\* a report whose second field starts before the end of the first, rendered
\* with padding rows
C10_Witness ==
    /\ Done
    /\ Len(info.fields) = 2
    /\ Less(Wide(info.fields[2].offset), End(info.fields[1]))
    /\ Cardinality(PaddingRows(rows)) = 2

====
